---- MODULE Spec2Model ----
(***************************************************************************)
(* Model of the ingestion and retrieval pipeline of the Sales Enablement   *)
(* Assistant: backend/ingest_docs.py, backend/vector_db.py and             *)
(* backend/rag_pipeline.py.                                                *)
(*                                                                         *)
(* Strings are sequences of one-character strings, so that str.split,      *)
(* str.strip and os.path.basename are computed and not assumed.            *)
(***************************************************************************)
EXTENDS Integers, Sequences, FiniteSets, TLC

VARIABLES
    \* chunk_text called on its own: its arguments, its result, its position
    text, max_tokens, chunks, cpc,
    \* the ChromaDB collection COLLECTION_NAME: whether it exists, its items
    exists, items,
    \* the number of uuid4 values drawn so far
    nextId,
    \* ingest_directory: position, next file of the walk, summary so far,
    \* service calls of the run so far, number of runs started
    ipc, fileIdx, summary, calls, runs,
    \* outcome of the operation that completed last
    out,
    \* the last ingestion or maintenance operation was a clear that reported
    \* success on a collection of N > 0 items
    afterClear,
    \* handle_chat_submission: position of the generator, history[-1][1],
    \* the locals full_response, stream and sources, the updates yielded so
    \* far, the pieces taken from the stream so far, the calls of the pipeline
    hpc, history_last, full_response, stream, sources, updates, received, ragCalls

chunkVars == <<text, max_tokens, chunks, cpc>>
ingestVars == <<ipc, fileIdx, summary, calls, runs>>
sysVars == <<exists, items, nextId, ipc, fileIdx, summary, calls, runs, out, afterClear>>
chatVars == <<hpc, history_last, full_response, stream, sources, updates, received, ragCalls>>
vars == <<text, max_tokens, chunks, cpc, exists, items, nextId,
          ipc, fileIdx, summary, calls, runs, out, afterClear,
          hpc, history_last, full_response, stream, sources, updates, received, ragCalls>>

(***************************************************************************)
(* Bounds of the model.                                                    *)
(***************************************************************************)
\* longest text handed to chunk_text
MaxLen == 5
\* largest max_tokens handed to chunk_text
MaxTok == 3
\* most pieces a chat stream delivers
MaxPieces == 3
\* ingestion runs of one behaviour
MaxRuns == 2

(***************************************************************************)
(* Python strings.                                                         *)
(***************************************************************************)
NL == "\n"
SP == " "
Chars == {"a", "b", SP, NL}
IsSpace(c) == c \in {SP, NL}

RECURSIVE StringsUpTo(_)
StringsUpTo(n) ==
    IF n = 0 THEN {<<>>}
    ELSE LET shorter == StringsUpTo(n - 1)
         IN  shorter \cup {Append(s, c) : s \in {t \in shorter : Len(t) = n - 1}, c \in Chars}

\* str.split("\n"): the pieces between newlines; k newlines give k+1 pieces
SplitLines(s) ==
    LET newlines == {i \in 1..Len(s) : s[i] = NL}
        pieces == Cardinality(newlines) + 1
        \* the position of the k-th newline; 0 and Len(s)+1 bracket the string
        cut(k) == IF k = 0 THEN 0
                  ELSE IF k = pieces THEN Len(s) + 1
                  ELSE CHOOSE i \in newlines : Cardinality({j \in newlines : j < i}) = k - 1
    IN  [k \in 1..pieces |-> SubSeq(s, cut(k - 1) + 1, cut(k) - 1)]

\* len(s.split()): the number of maximal runs of non-whitespace characters
WordCount(s) ==
    Cardinality({i \in 1..Len(s) : ~IsSpace(s[i]) /\ (i = 1 \/ IsSpace(s[i - 1]))})

\* s.strip(): s without its leading and trailing whitespace
Strip(s) ==
    LET solid == {i \in 1..Len(s) : ~IsSpace(s[i])}
        lo == CHOOSE i \in solid : \A j \in solid : i <= j
        hi == CHOOSE i \in solid : \A j \in solid : j <= i
    IN  IF solid = {} THEN <<>> ELSE SubSeq(s, lo, hi)

(***************************************************************************)
(* chunk_text (ingest_docs.py)                                             *)
(***************************************************************************)
\* line 46 without the words already in the running chunk
Fits_ignoring_buffer(current_chunk, para, max_tok) ==
    WordCount(para) < max_tok

\* line 46: the paragraph still goes into the running chunk
Fits(current_chunk, para, max_tok) ==
    WordCount(current_chunk) + WordCount(para) < max_tok

\* line 47: current_chunk += para + "\n"
Accumulate(current_chunk, para) == current_chunk \o para \o <<NL>>

\* line 49: chunks.append(current_chunk.strip())
Flush(chunkList, current_chunk) == Append(chunkList, Strip(current_chunk))

\* line 50 as current_chunk = "": the paragraph at hand is lost
Restart_empty(para) == <<>>

\* line 50: current_chunk = para + "\n"
Restart(para) == para \o <<NL>>

\* lines 51-52 without the test: the remaining buffer is always appended
FinalFlush_unguarded(chunkList, current_chunk) ==
    Append(chunkList, Strip(current_chunk))

\* lines 51-52: the remaining buffer is appended only when it is not blank
FinalFlush(chunkList, current_chunk) ==
    IF Strip(current_chunk) # <<>> THEN Append(chunkList, Strip(current_chunk))
    ELSE chunkList

\* lines 45-52: the loop over the paragraphs, from paragraph i on
RECURSIVE ChunkLoop(_, _, _, _, _)
ChunkLoop(paragraphs, i, chunkList, current_chunk, max_tok) ==
    IF i > Len(paragraphs) THEN FinalFlush(chunkList, current_chunk)
    ELSE IF Fits(current_chunk, paragraphs[i], max_tok)
         THEN ChunkLoop(paragraphs, i + 1, chunkList,
                        Accumulate(current_chunk, paragraphs[i]), max_tok)
         ELSE ChunkLoop(paragraphs, i + 1, Flush(chunkList, current_chunk),
                        Restart(paragraphs[i]), max_tok)

chunk_text(t, max_tok) == ChunkLoop(SplitLines(t), 1, <<>>, <<>>, max_tok)

(***************************************************************************)
(* Settings (config/settings.py) and the fixed retrieval depth.            *)
(***************************************************************************)
\* settings.py: CHUNK_SIZE_TOKENS
CHUNK_SIZE_TOKENS == 400
\* rag_pipeline.py: search_vector_db(query_embedding, top_k=5)
TOP_K == 5

(***************************************************************************)
(* More of Python's str and os.path.                                       *)
(***************************************************************************)
\* str.lower() on the letters that occur in the modelled file names
LowerChar(c) ==
    CASE c = "H" -> "h" [] c = "T" -> "t" [] c = "M" -> "m" [] c = "L" -> "l"
      [] c = "B" -> "b" [] OTHER -> c

Lower(s) == [i \in 1..Len(s) |-> LowerChar(s[i])]

\* str.endswith(suffix)
EndsWith(s, suffix) ==
    /\ Len(s) >= Len(suffix)
    /\ SubSeq(s, Len(s) - Len(suffix) + 1, Len(s)) = suffix

\* code points, in increasing order, of the characters of the file names
CodeOrder == <<".", "B", "H", "L", "M", "T", "a", "b", "d", "e", "f", "h", "l", "m", "n", "t", "x">>
Ord(c) == CHOOSE i \in 1..Len(CodeOrder) : CodeOrder[i] = c

\* s < t for Python strings: lexicographic by code point
RECURSIVE StrLess(_, _)
StrLess(s, t) ==
    IF t = <<>> THEN FALSE
    ELSE IF s = <<>> THEN TRUE
    ELSE IF s[1] = t[1] THEN StrLess(Tail(s), Tail(t))
    ELSE Ord(s[1]) < Ord(t[1])

\* sorted(names): insertion into an ascending sequence, equal names kept
RECURSIVE Insert(_, _)
Insert(sortedNames, name) ==
    IF sortedNames = <<>> THEN <<name>>
    ELSE IF StrLess(name, sortedNames[1]) THEN <<name>> \o sortedNames
    ELSE <<sortedNames[1]>> \o Insert(Tail(sortedNames), name)

RECURSIVE Sorted(_)
Sorted(names) ==
    IF names = <<>> THEN <<>>
    ELSE Insert(Sorted(SubSeq(names, 1, Len(names) - 1)), names[Len(names)])

\* os.path.join(root, file): a path is the sequence of its components
PathJoin(root, file) == Append(root, file)

\* os.path.basename(path): the last component
Basename(path) == path[Len(path)]

(***************************************************************************)
(* The documentation directory, in os.walk order.  An HTML file is the     *)
(* sequence of its elements; string = <<>> with has_string = FALSE is an    *)
(* element whose .string is None.                                          *)
(***************************************************************************)
\* a paragraph of n words
Words(n) == [i \in 1..(2 * n - 1) |-> IF i % 2 = 1 THEN "a" ELSE SP]

UNTITLED == <<"U", "n", "t", "i", "t", "l", "e", "d", " ", "D", "o", "c", "u", "m", "e", "n", "t">>

DocsFiles == <<
    [root |-> << <<"a">> >>, file |-> <<"d", ".", "h", "t", "m", "l">>,
     html |-> << [tag |-> "title", has_string |-> TRUE, string |-> <<SP, "T">>],
                 [tag |-> "script", has_string |-> TRUE, string |-> <<"b", SP, "b", SP, "b", SP, "b">>],
                 [tag |-> "p", has_string |-> TRUE, string |-> <<"a">>],
                 [tag |-> "p", has_string |-> TRUE, string |-> <<SP>> \o Words(CHUNK_SIZE_TOKENS - 2)] >>],
    [root |-> << <<"a">> >>, file |-> <<"n", ".", "t", "x", "t">>,
     html |-> << [tag |-> "p", has_string |-> TRUE, string |-> <<"a">>] >>],
    [root |-> << <<"b">> >>, file |-> <<"d", ".", "h", "t", "m", "l">>,
     html |-> << [tag |-> "p", has_string |-> TRUE, string |-> <<"b">>] >>],
    [root |-> << <<"b">> >>, file |-> <<"e", ".", "H", "T", "M">>,
     html |-> << [tag |-> "title", has_string |-> FALSE, string |-> <<>>],
                 [tag |-> "p", has_string |-> TRUE, string |-> <<"a">>] >>],
    [root |-> << <<"c">> >>, file |-> <<"f", ".", "h", "t", "m">>,
     html |-> << [tag |-> "style", has_string |-> TRUE, string |-> <<"a">>],
                 [tag |-> "p", has_string |-> TRUE, string |-> <<SP>>] >>],
    [root |-> << <<"c">> >>, file |-> <<"B", ".", "H", "T", "M">>,
     html |-> << [tag |-> "p", has_string |-> TRUE, string |-> <<"a">>] >> ] >>

\* line 67: file.lower().endswith((".html", ".htm"))
Eligible(file) ==
    \/ EndsWith(Lower(file), <<".", "h", "t", "m", "l">>)
    \/ EndsWith(Lower(file), <<".", "h", "t", "m">>)

(***************************************************************************)
(* clean_html (ingest_docs.py)                                             *)
(***************************************************************************)
\* lines 31-32: script and style elements are removed
Decompose(html) == SelectSeq(html, LAMBDA el : el.tag \notin {"script", "style"})

\* soup.title: the first title element, if there is one
SoupTitle(soup) ==
    IF \E i \in 1..Len(soup) : soup[i].tag = "title"
    THEN [found |-> TRUE,
          el |-> soup[CHOOSE i \in 1..Len(soup) :
                        /\ soup[i].tag = "title"
                        /\ \A j \in 1..(i - 1) : soup[j].tag # "title"]]
    ELSE [found |-> FALSE]

\* "\n".join(lines)
RECURSIVE JoinLines(_)
JoinLines(lines) ==
    IF lines = <<>> THEN <<>>
    ELSE IF Len(lines) = 1 THEN lines[1]
    ELSE lines[1] \o <<NL>> \o JoinLines(Tail(lines))

\* line 34: get_text(separator="\n", strip=True): the stripped, non-empty
\* strings of the document, one per line
GetText(soup) ==
    LET present == SelectSeq(soup, LAMBDA el : el.has_string)
        stripped == [i \in 1..Len(present) |-> Strip(present[i].string)]
    IN  JoinLines(SelectSeq(stripped, LAMBDA str : str # <<>>))

\* lines 30-35; soup.title.string.strip() raises when the title has no string
clean_html(html_content) ==
    LET soup == Decompose(html_content)
        soup_title == SoupTitle(soup)
    IN  IF soup_title.found /\ ~soup_title.el.has_string
        THEN [raised |-> TRUE, error |-> "AttributeError"]
        ELSE [raised |-> FALSE,
              title |-> IF soup_title.found THEN Strip(soup_title.el.string) ELSE UNTITLED,
              text |-> GetText(soup)]

(***************************************************************************)
(* The embedding service and the vector index.                             *)
(***************************************************************************)
\* embeddings(model=EMBEDDING_MODEL, prompt=...)['embedding']
Embedding(prompt) == <<"embedding", prompt>>

\* collection.add with the position of the chunk in its file as id, in place
\* of the uuid4 values
CollectionAdd_positional_ids(coll, ids, vectors, documents, metadatas) ==
    coll \cup {[id |-> i, embedding |-> vectors[i],
                document |-> documents[i], metadata |-> metadatas[i]] :
               i \in 1..Len(ids)}

\* collection.add(ids, embeddings, documents, metadatas)
CollectionAdd(coll, ids, vectors, documents, metadatas) ==
    coll \cup {[id |-> ids[i], embedding |-> vectors[i],
                document |-> documents[i], metadata |-> metadatas[i]] :
               i \in 1..Len(ids)}

(***************************************************************************)
(* ingest_directory (ingest_docs.py): one file of the walk.                *)
(***************************************************************************)
\* what may go wrong while a file with n chunks is processed: open() or
\* f.read() raises, the embedding call of chunk j raises, collection.add
\* raises (clean_html raises or not according to the file's markup)
Faults(n) ==
    {[kind |-> "none", at |-> 0], [kind |-> "open", at |-> 0]}
        \cup {[kind |-> "embed", at |-> j] : j \in 1..n}
        \cup (IF n > 0 THEN {[kind |-> "add", at |-> 0]} ELSE {})

\* lines 99-102
FailureLine(file_path, error) == <<"failed", file_path, error>>

\* line 98
SuccessLine(file, n) == <<"indexed", file, n>>

\* lines 84-86 walking the chunks from the last to the first
EmbedCalls_reversed(file_path, chunkList, fault) ==
    LET last == IF fault.kind = "embed" THEN fault.at ELSE Len(chunkList)
        n == Len(chunkList)
    IN  [i \in 1..last |->
            [op |-> "embed", path |-> file_path, prompt |-> chunkList[n + 1 - i],
             ok |-> ~(fault.kind = "embed" /\ fault.at = i),
             response |-> IF fault.kind = "embed" /\ fault.at = i THEN <<>>
                          ELSE Embedding(chunkList[n + 1 - i])]]

\* lines 84-86: the embedding calls, up to the one that raises (if any),
\* each with the vector it returns
EmbedCalls(file_path, chunkList, fault) ==
    LET last == IF fault.kind = "embed" THEN fault.at ELSE Len(chunkList)
    IN  [i \in 1..last |->
            [op |-> "embed", path |-> file_path, prompt |-> chunkList[i],
             ok |-> ~(fault.kind = "embed" /\ fault.at = i),
             response |-> IF fault.kind = "embed" /\ fault.at = i THEN <<>>
                          ELSE Embedding(chunkList[i])]]

\* lines 83-89 with collection.add inside the loop: the chunks embedded
\* before the failing call are already in the index
IndexAfterEmbedFailure_partial(coll, firstId, embeds, chunkList, metadata) ==
    CollectionAdd(coll,
        [i \in 1..(Len(embeds) - 1) |-> firstId + i],
        [i \in 1..(Len(embeds) - 1) |-> embeds[i].response],
        [i \in 1..(Len(embeds) - 1) |-> chunkList[i]],
        [i \in 1..(Len(embeds) - 1) |-> metadata])

\* lines 83-89: the vectors are collected in doc_embeddings and the only
\* collection.add comes after the loop, so a failing embedding call leaves
\* the index as it was
IndexAfterEmbedFailure(coll, firstId, embeds, chunkList, metadata) == coll

\* lines 70-102 for one eligible file: whether an exception leaves
\* ingest_directory, the lines added to the summary, the items written,
\* the service calls made and the uuid4 values that reached the index
ProcessFile(f, fault, coll, firstId) ==
    LET file_path == PathJoin(f.root, f.file)
        cleaned == clean_html(f.html)
        chunkList == chunk_text(cleaned.text, CHUNK_SIZE_TOKENS)
        n == Len(chunkList)
        opened == [op |-> "open", path |-> file_path, ok |-> TRUE]
        embeds == EmbedCalls(file_path, chunkList, fault)
        \* line 86: doc_embeddings; lines 93-96: the metadata of every chunk
        doc_embeddings == [i \in 1..n |-> embeds[i].response]
        metadata == [title |-> cleaned.title, source_path |-> file_path]
        addCall == [op |-> "add", path |-> file_path, n |-> n, ok |-> fault.kind # "add",
                    embeddings |-> doc_embeddings, documents |-> chunkList,
                    metadatas |-> [i \in 1..n |-> metadata]]
    IN  IF fault.kind = "open"
        THEN [escaped |-> TRUE, lines |-> <<>>, coll |-> coll, ids |-> 0,
              log |-> <<[op |-> "open", path |-> file_path, ok |-> FALSE]>>]
        ELSE IF cleaned.raised
        THEN [escaped |-> FALSE, lines |-> <<FailureLine(file_path, cleaned.error)>>,
              coll |-> coll, ids |-> 0,
              log |-> <<opened, [op |-> "clean", path |-> file_path, ok |-> FALSE]>>]
        ELSE IF n = 0
        THEN [escaped |-> FALSE, lines |-> <<>>, coll |-> coll, ids |-> 0,
              log |-> <<opened>>]
        ELSE IF fault.kind = "embed"
        THEN [escaped |-> FALSE, lines |-> <<FailureLine(file_path, "EmbedError")>>,
              coll |-> IndexAfterEmbedFailure(coll, firstId, embeds, chunkList, metadata),
              ids |-> 0, log |-> <<opened>> \o embeds]
        ELSE IF fault.kind = "add"
        THEN [escaped |-> FALSE, lines |-> <<FailureLine(file_path, "AddError")>>,
              coll |-> coll, ids |-> 0, log |-> (<<opened>> \o embeds) \o <<addCall>>]
        ELSE [escaped |-> FALSE, lines |-> <<SuccessLine(f.file, n)>>,
              coll |-> CollectionAdd(coll,
                          [i \in 1..n |-> firstId + i],
                          doc_embeddings,
                          chunkList,
                          [i \in 1..n |-> metadata]),
              ids |-> n, log |-> (<<opened>> \o embeds) \o <<addCall>>]

\* the number of chunks of a file (0 when cleaning raises)
ChunkCount(f) ==
    IF clean_html(f.html).raised THEN 0
    ELSE Len(chunk_text(clean_html(f.html).text, CHUNK_SIZE_TOKENS))

NoOutcome == [op |-> "none"]

\* The front end invokes the operations one at a time: an operation starts
\* when no other runs and the outcome of the previous one has been shown.
Ready == ipc = "idle" /\ out.op = "none"

\* lines 60-64: the collection is created if absent, the summary starts empty
IngestStart ==
    /\ Ready
    /\ runs < MaxRuns
    /\ runs' = runs + 1
    /\ exists' = TRUE
    /\ ipc' = "walking"
    /\ fileIdx' = 1
    /\ summary' = <<>>
    /\ calls' = <<>>
    /\ out' = NoOutcome
    /\ afterClear' = FALSE
    /\ UNCHANGED <<items, nextId, chunkVars, chatVars>>

\* lines 66-68: a file that is not .html/.htm is passed over
IngestSkipFile ==
    /\ ipc = "walking"
    /\ fileIdx <= Len(DocsFiles)
    /\ ~Eligible(DocsFiles[fileIdx].file)
    /\ fileIdx' = fileIdx + 1
    /\ UNCHANGED <<exists, items, nextId, ipc, summary, calls, runs,
                   out, afterClear, chunkVars, chatVars>>

\* lines 70-102: the next eligible file is read, cleaned, chunked, embedded
\* and written; an exception outside the try block leaves ingest_directory
IngestFile ==
    /\ ipc = "walking"
    /\ fileIdx <= Len(DocsFiles)
    /\ Eligible(DocsFiles[fileIdx].file)
    /\ \E fault \in Faults(ChunkCount(DocsFiles[fileIdx])) :
          LET r == ProcessFile(DocsFiles[fileIdx], fault, items, nextId)
          IN  /\ items' = r.coll
              /\ nextId' = nextId + r.ids
              /\ IF r.escaped
                 THEN /\ ipc' = "idle"
                      /\ out' = [op |-> "ingest", kind |-> "raised", error |-> "OSError",
                                  log |-> calls \o r.log]
                      /\ fileIdx' = 1
                      /\ summary' = <<>>
                      /\ calls' = <<>>
                 ELSE /\ ipc' = "walking"
                      /\ out' = out
                      /\ fileIdx' = fileIdx + 1
                      /\ summary' = summary \o r.lines
                      /\ calls' = calls \o r.log
    /\ UNCHANGED <<exists, runs, afterClear, chunkVars, chatVars>>

\* lines 104-105: the walk is over, the summary is returned
IngestReturn ==
    /\ ipc = "walking"
    /\ fileIdx > Len(DocsFiles)
    /\ ipc' = "idle"
    /\ out' = [op |-> "ingest", kind |-> "returned", value |-> summary, log |-> calls]
    /\ fileIdx' = 1
    /\ summary' = <<>>
    /\ calls' = <<>>
    /\ UNCHANGED <<exists, items, nextId, runs, afterClear, chunkVars, chatVars>>

(***************************************************************************)
(* The similarity query of the index.  Items are ranked by the distance of *)
(* their vector to the query vector, so items with the same vector (the    *)
(* same chunk text) are neighbours in the ranking, in any order.           *)
(***************************************************************************)
\* what a query returns of an item: its document and its metadata
Hit(item) == [document |-> item.document, metadata |-> item.metadata]

\* the orders in which the elements of a bag (element -> count) can come
RECURSIVE Arrangements(_)
Arrangements(bag) ==
    IF \A x \in DOMAIN bag : bag[x] = 0 THEN {<<>>}
    ELSE UNION {{<<x>> \o rest : rest \in Arrangements([bag EXCEPT ![x] = @ - 1])} :
                x \in {y \in DOMAIN bag : bag[y] > 0}}

\* the hits of the items that carry vector v, in any order
TiedHits(coll, v) ==
    LET tied == {it \in coll : it.embedding = v}
    IN  Arrangements([h \in {Hit(it) : it \in tied} |->
                         Cardinality({it \in tied : Hit(it) = h})])

\* the full rankings of the items whose vectors are in vs
RECURSIVE RankingsOf(_, _)
RankingsOf(coll, vs) ==
    IF vs = {} THEN {<<>>}
    ELSE UNION {{first \o rest : first \in TiedHits(coll, v),
                                 rest \in RankingsOf(coll, vs \ {v})} : v \in vs}

Min(a, b) == IF a <= b THEN a ELSE b

\* collection.query(query_embeddings, n_results): the n_results best hits
QueryResults(coll, n_results) ==
    {SubSeq(r, 1, Min(n_results, Len(r))) :
        r \in RankingsOf(coll, {it.embedding : it \in coll})}

(***************************************************************************)
(* search_vector_db (vector_db.py)                                         *)
(***************************************************************************)
\* lines 47-50 missing: the ValueError of get_collection leaves the function
OnCollectionMissing_uncaught == [kind |-> "raised", error |-> "ValueError", value |-> <<>>]

\* lines 47-50: except ValueError
OnCollectionMissing == [kind |-> "returned", value |-> <<>>]

\* lines 51-53: except Exception
OnSearchError == [kind |-> "returned", value |-> <<>>]

\* lines 39-45: the hits as a list of dicts, [] when there is none
Normalize(results) ==
    IF results # <<>>
    THEN [kind |-> "returned",
          value |-> [i \in 1..Len(results) |->
                        [document |-> results[i].document, metadata |-> results[i].metadata]]]
    ELSE [kind |-> "returned", value |-> <<>>]

\* lines 26-53; results is what collection.query returns when it returns,
\* query_raises says that it raises instead
search_vector_db(found, results, query_raises) ==
    IF ~found THEN OnCollectionMissing
    ELSE IF query_raises THEN OnSearchError
    ELSE Normalize(results)

\* what collection.query can do: raise, or return one of the rankings
QueryBehaviours(coll, n_results) ==
    {[raises |-> TRUE, results |-> <<>>]}
        \cup {[raises |-> FALSE, results |-> r] : r \in QueryResults(coll, n_results)}

\* search_vector_db with get_or_create_collection in place of line 28
Search_get_or_create ==
    /\ Ready
    /\ \E q \in QueryBehaviours(items, TOP_K) :
          out' = [op |-> "search", found |-> exists, count |-> Cardinality(items),
                  query_raised |-> q.raises]
                 @@ search_vector_db(TRUE, q.results, q.raises)
    /\ exists' = TRUE
    /\ UNCHANGED <<items, nextId, ingestVars, afterClear, chunkVars, chatVars>>

\* a call of search_vector_db with top_k = 5
Search ==
    /\ Ready
    /\ \E q \in QueryBehaviours(items, TOP_K) :
          out' = [op |-> "search", found |-> exists, count |-> Cardinality(items),
                  query_raised |-> (exists /\ q.raises)]
                 @@ search_vector_db(exists, q.results, q.raises)
    /\ UNCHANGED <<exists, items, nextId, ingestVars, afterClear, chunkVars, chatVars>>

(***************************************************************************)
(* get_rag_response_stream (rag_pipeline.py)                               *)
(***************************************************************************)
NO_DOCUMENTS_MESSAGE ==
    << <<"No relevant documents were found in the database. Please try rephrasing your question or ingesting more documents.">> >>

\* lines 46-52: the basename of every path at its first occurrence
RECURSIVE SourceDocuments(_, _, _)
SourceDocuments(retrieved_chunks, i, seen_paths) ==
    IF i > Len(retrieved_chunks) THEN <<>>
    ELSE LET source_path == retrieved_chunks[i].metadata.source_path
         IN  IF source_path # <<>> /\ source_path \notin seen_paths
             THEN <<Basename(source_path)>>
                      \o SourceDocuments(retrieved_chunks, i + 1, seen_paths \cup {source_path})
             ELSE SourceDocuments(retrieved_chunks, i + 1, seen_paths)

\* line 54 without sorted(): the bullets in rank order
SourcesText_unsorted(source_documents) ==
    << <<"### Retrieved Sources:">> >>
        \o [i \in 1..Len(source_documents) |-> <<"- ", source_documents[i]>>]

\* line 54: the header line, then one bullet line per sorted name
SourcesText(source_documents) ==
    << <<"### Retrieved Sources:">> >>
        \o [i \in 1..Len(source_documents) |-> <<"- ", Sorted(source_documents)[i]>>]

\* lines 28-70 without lines 37-39: the prompt is built and sent even when
\* nothing was retrieved
get_rag_response_stream_no_short_circuit(searched, embed_raises, chat_raises) ==
    IF embed_raises
    THEN [kind |-> "raised", error |-> "EmbedError", searched |-> FALSE,
          retrieved |-> <<>>, chat_calls |-> 0]
    ELSE IF chat_raises
    THEN [kind |-> "raised", error |-> "ChatError", searched |-> TRUE,
          retrieved |-> searched.value, chat_calls |-> 1]
    ELSE [kind |-> "returned", stream |-> "llm_stream",
          text |-> SourcesText(SourceDocuments(searched.value, 1, {})),
          searched |-> TRUE, retrieved |-> searched.value, chat_calls |-> 1]

\* lines 28-70; an exception of ollama.embeddings or ollama.chat is not caught
get_rag_response_stream(searched, embed_raises, chat_raises) ==
    IF embed_raises
    THEN [kind |-> "raised", error |-> "EmbedError", searched |-> FALSE,
          retrieved |-> <<>>, chat_calls |-> 0]
    ELSE IF searched.value = <<>>
    THEN [kind |-> "returned", stream |-> "None", text |-> NO_DOCUMENTS_MESSAGE,
          searched |-> TRUE, retrieved |-> <<>>, chat_calls |-> 0]
    ELSE IF chat_raises
    THEN [kind |-> "raised", error |-> "ChatError", searched |-> TRUE,
          retrieved |-> searched.value, chat_calls |-> 1]
    ELSE [kind |-> "returned", stream |-> "llm_stream",
          text |-> SourcesText(SourceDocuments(searched.value, 1, {})),
          searched |-> TRUE, retrieved |-> searched.value, chat_calls |-> 1]

\* a call of get_rag_response_stream
Query ==
    /\ Ready
    /\ \/ \* the embedding call raises: the index is not reached
          out' = [op |-> "rag"] @@ get_rag_response_stream(OnCollectionMissing, TRUE, FALSE)
       \/ \E q \in QueryBehaviours(items, TOP_K), chat_raises \in BOOLEAN :
             out' = [op |-> "rag"]
                    @@ get_rag_response_stream(
                           search_vector_db(exists, q.results, q.raises),
                           FALSE, chat_raises)
    /\ UNCHANGED <<exists, items, nextId, ingestVars, afterClear, chunkVars, chatVars>>

(***************************************************************************)
(* clear_database_collection (vector_db.py)                                *)
(***************************************************************************)
\* lines 96-99 as get_or_create_collection: a missing collection is created
\* and reported as cleared
clear_database_collection_get_or_create(found, coll, delete_raises, create_raises) ==
    IF found /\ delete_raises
    THEN [status |-> "error", exists |-> TRUE, items |-> coll]
    ELSE IF create_raises
    THEN [status |-> "error", exists |-> FALSE, items |-> {}]
    ELSE [status |-> "cleared", exists |-> TRUE, items |-> {}]

\* lines 96-100 without line 97: the collection is never deleted
clear_database_collection_no_delete(found, coll, delete_raises, create_raises) ==
    IF ~found
    THEN [status |-> "nothing to clear", exists |-> FALSE, items |-> coll]
    ELSE IF create_raises
    THEN [status |-> "error", exists |-> TRUE, items |-> coll]
    ELSE [status |-> "cleared", exists |-> TRUE, items |-> coll]

\* lines 96-100: the collection is deleted and created again, empty;
\* lines 101-102: get_collection raises ValueError, there is none;
\* lines 103-104: delete_collection or create_collection raised
clear_database_collection(found, coll, delete_raises, create_raises) ==
    IF ~found
    THEN [status |-> "nothing to clear", exists |-> FALSE, items |-> coll]
    ELSE IF delete_raises
    THEN [status |-> "error", exists |-> TRUE, items |-> coll]
    ELSE IF create_raises
    THEN [status |-> "error", exists |-> FALSE, items |-> {}]
    ELSE [status |-> "cleared", exists |-> TRUE, items |-> {}]

\* a call of clear_database_collection
Clear ==
    /\ Ready
    /\ \E delete_raises \in BOOLEAN, create_raises \in BOOLEAN :
          LET r == clear_database_collection(exists, items, delete_raises, create_raises)
          IN  /\ exists' = r.exists
              /\ items' = r.items
              /\ out' = [op |-> "clear", status |-> r.status,
                         found |-> exists, count |-> Cardinality(items)]
              /\ afterClear' = (r.status = "cleared" /\ items # {})
    /\ UNCHANGED <<nextId, ingestVars, chunkVars, chatVars>>

\* the outcome of the finished operation is shown to the user
Respond ==
    /\ ipc = "idle"
    /\ out.op # "none"
    /\ out' = NoOutcome
    /\ UNCHANGED <<exists, items, nextId, ingestVars, afterClear, chunkVars, chatVars>>

(***************************************************************************)
(* handle_chat_submission (app.py), a generator driven by its caller       *)
(***************************************************************************)
\* history[-1][1]: None, or a text
NoneAnswer == [has_value |-> FALSE, value |-> <<>>]
Answer(s) == [has_value |-> TRUE, value |-> s]

THINKING == << <<"*Thinking...*">> >>

\* what a yield hands to the caller: the history and gr.update(value=...)
Update(entry, value) == [history_last |-> entry, sources_display |-> value]

\* the pieces an ollama chat stream can deliver: with message content (which
\* may be the empty string), or without
StreamPieces ==
    {[has_content |-> TRUE, content |-> c] : c \in {<<>>, <<"x">>, <<"y">>}}
        \cup {[has_content |-> FALSE, content |-> <<>>]}

\* line 107
HasContent(chunk) == chunk.has_content

\* line 109 with = in place of +=
FullResponse_last_delta(response, chunk_content) ==
    chunk_content

\* line 109
FullResponse(response, chunk_content) ==
    response \o chunk_content

\* the handler has not been invoked
InitHandler ==
    /\ hpc = "unused"
    /\ history_last = NoneAnswer
    /\ full_response = <<>>
    /\ stream = "unset"
    /\ sources = <<>>
    /\ updates = <<>>
    /\ received = <<>>
    /\ ragCalls = 0

\* lines 93-95: the first next() of the caller runs to the first yield
HandlerStart ==
    /\ hpc = "created"
    /\ history_last' = NoneAnswer
    /\ updates' = Append(updates, Update(NoneAnswer, THINKING))
    /\ hpc' = "thinking"
    /\ UNCHANGED <<full_response, stream, sources, received, ragCalls>>
    /\ UNCHANGED <<sysVars, chunkVars>>

\* lines 97-105: the second next() calls the pipeline; without a stream the
\* handler yields the message, with one it enters the loop of line 106
HandlerCallPipeline ==
    /\ hpc = "thinking"
    /\ ragCalls' = ragCalls + 1
    /\ \E embed_raises \in BOOLEAN, chat_raises \in BOOLEAN,
          q \in QueryBehaviours(items, TOP_K) :
          LET r == get_rag_response_stream(
                       search_vector_db(exists, q.results, q.raises),
                       embed_raises, chat_raises)
          IN  IF r.kind = "raised"
              THEN /\ hpc' = "raised"
                   /\ UNCHANGED <<history_last, full_response, stream, sources, updates>>
              ELSE IF r.stream = "None"
              THEN /\ stream' = "None"
                   /\ sources' = r.text
                   /\ history_last' = Answer(r.text)
                   /\ updates' = Append(updates, Update(Answer(r.text), r.text))
                   /\ hpc' = "message"
                   /\ UNCHANGED full_response
              ELSE /\ stream' = "open"
                   /\ sources' = r.text
                   /\ history_last' = Answer(<<>>)
                   /\ full_response' = <<>>
                   /\ hpc' = "loop"
                   /\ UNCHANGED updates
    /\ UNCHANGED received
    /\ UNCHANGED <<sysVars, chunkVars>>

\* lines 106-111: the for statement takes the next piece of the stream; the
\* stream delivers a piece, ends (line 113 and the return), or raises
HandlerPull ==
    /\ hpc = "loop"
    /\ \/ /\ Len(received) < MaxPieces
          /\ \E chunk \in StreamPieces :
                /\ received' = Append(received, chunk)
                /\ IF HasContent(chunk)
                   THEN /\ full_response' = FullResponse(full_response, chunk.content)
                        /\ history_last' = Answer(full_response')
                        /\ updates' = Append(updates, Update(Answer(full_response'), sources))
                        /\ hpc' = "yielded"
                   ELSE UNCHANGED <<full_response, history_last, updates, hpc>>
          /\ UNCHANGED stream
       \/ /\ stream' = "ended"
          /\ hpc' = "done"
          /\ UNCHANGED <<full_response, history_last, updates, received>>
       \/ /\ hpc' = "raised"
          /\ UNCHANGED <<full_response, history_last, updates, received, stream>>
    /\ UNCHANGED <<sources, ragCalls>>
    /\ UNCHANGED <<sysVars, chunkVars>>

\* a further next() of the caller: after the yield of line 101 the handler
\* returns (line 102), after the yield of line 111 the loop goes on
HandlerResume ==
    /\ \/ hpc = "message" /\ hpc' = "done"
       \/ hpc = "yielded" /\ hpc' = "loop"
    /\ UNCHANGED <<history_last, full_response, stream, sources, updates, received, ragCalls>>
    /\ UNCHANGED <<sysVars, chunkVars>>

\* the caller stops iterating: the generator is closed where it is suspended
HandlerClose ==
    /\ hpc \in {"thinking", "message", "yielded"}
    /\ hpc' = "closed"
    /\ UNCHANGED <<history_last, full_response, stream, sources, updates, received, ragCalls>>
    /\ UNCHANGED <<sysVars, chunkVars>>

\* nothing is indexed and nothing runs
InitSystem ==
    /\ exists = FALSE
    /\ items = {}
    /\ nextId = 0
    /\ ipc = "idle"
    /\ fileIdx = 1
    /\ summary = <<>>
    /\ calls = <<>>
    /\ runs = 0
    /\ out = NoOutcome
    /\ afterClear = FALSE

InitChunk ==
    /\ text \in StringsUpTo(MaxLen)
    /\ max_tokens \in 1..MaxTok
    /\ chunks = <<>>
    /\ cpc = "call"
    /\ InitSystem
    /\ InitHandler

CallChunkText ==
    /\ cpc = "call"
    /\ chunks' = chunk_text(text, max_tokens)
    /\ cpc' = "done"
    /\ UNCHANGED <<text, max_tokens, sysVars, chatVars>>

NextChunk == CallChunkText

SpecChunk == InitChunk /\ [][NextChunk]_vars

\* the non-blank paragraphs of a string, each without surrounding whitespace
Paragraphs(s) ==
    LET lines == SplitLines(s)
    IN  [k \in 1..Len(SelectSeq(lines, LAMBDA p : Strip(p) # <<>>)) |->
            Strip(SelectSeq(lines, LAMBDA p : Strip(p) # <<>>)[k])]

RECURSIVE ParagraphsOfChunks(_, _)
ParagraphsOfChunks(chunkList, i) ==
    IF i > Len(chunkList) THEN <<>>
    ELSE Paragraphs(chunkList[i]) \o ParagraphsOfChunks(chunkList, i + 1)

\* C6: no chunk returned by chunk_text is empty after trimming
C6_NoEmptyChunk ==
    cpc = "done" => \A i \in 1..Len(chunks) : Strip(chunks[i]) # <<>>

\* C7: every chunk has at most max_tokens words, or is exactly one paragraph
\* whose own word count exceeds max_tokens
C7_TokenBound ==
    cpc = "done" =>
        \A i \in 1..Len(chunks) :
            \/ WordCount(chunks[i]) <= max_tokens
            \/ /\ Len(SplitLines(chunks[i])) = 1
               /\ WordCount(SplitLines(chunks[i])[1]) > max_tokens
               /\ \E k \in 1..Len(SplitLines(text)) :
                      Strip(SplitLines(text)[k]) = chunks[i]

C7_Witness ==
    /\ cpc = "done"
    /\ max_tokens > 0
    /\ Len(chunks) >= 2
    /\ \E i \in 1..Len(chunks) : WordCount(chunks[i]) > max_tokens

\* C8: the paragraphs of the chunks, chunk by chunk, are the non-blank
\* paragraphs of the input in their order (paragraphs compared without their
\* surrounding whitespace, which strip() removes at the chunk edges)
C8_ParagraphsPreserved ==
    cpc = "done" => ParagraphsOfChunks(chunks, 1) = Paragraphs(text)

C8_Witness ==
    /\ cpc = "done"
    /\ Len(chunks) >= 2
    /\ Len(Paragraphs(text)) >= 3
    /\ \E i \in 1..Len(chunks) : Len(Paragraphs(chunks[i])) >= 2

(***************************************************************************)
(* Specification of the pipeline: ingestion, retrieval, maintenance.       *)
(***************************************************************************)
Init ==
    /\ text = <<>>
    /\ max_tokens = CHUNK_SIZE_TOKENS
    /\ chunks = <<>>
    /\ cpc = "unused"
    /\ InitSystem
    /\ InitHandler

Next ==
    \/ IngestStart
    \/ IngestSkipFile
    \/ IngestFile
    \/ IngestReturn
    \/ Search
    \/ Query
    \/ Clear
    \/ Respond

Spec == Init /\ [][Next]_vars

(***************************************************************************)
(* Specification of a chat submission, on an index that is absent or holds *)
(* the documents of one ingestion.                                         *)
(***************************************************************************)
\* an ingestion of DocsFiles from file k on in which no step raises
RECURSIVE IngestAll(_, _, _)
IngestAll(k, coll, firstId) ==
    IF k > Len(DocsFiles) THEN [coll |-> coll, nextId |-> firstId]
    ELSE IF ~Eligible(DocsFiles[k].file) THEN IngestAll(k + 1, coll, firstId)
    ELSE LET r == ProcessFile(DocsFiles[k], [kind |-> "none", at |-> 0], coll, firstId)
         IN  IngestAll(k + 1, r.coll, firstId + r.ids)

InitChat ==
    /\ text = <<>>
    /\ max_tokens = CHUNK_SIZE_TOKENS
    /\ chunks = <<>>
    /\ cpc = "unused"
    /\ \/ InitSystem
       \/ /\ exists = TRUE
          /\ items = IngestAll(1, {}, 0).coll
          /\ nextId = IngestAll(1, {}, 0).nextId
          /\ ipc = "idle"
          /\ fileIdx = 1
          /\ summary = <<>>
          /\ calls = <<>>
          /\ runs = 1
          /\ out = NoOutcome
          /\ afterClear = FALSE
    /\ hpc = "created"
    /\ history_last = NoneAnswer
    /\ full_response = <<>>
    /\ stream = "unset"
    /\ sources = <<>>
    /\ updates = <<>>
    /\ received = <<>>
    /\ ragCalls = 0

NextChat ==
    \/ HandlerStart
    \/ HandlerCallPipeline
    \/ HandlerPull
    \/ HandlerResume
    \/ HandlerClose

SpecChat == InitChat /\ [][NextChat]_vars

(***************************************************************************)
(* Properties of the pipeline.                                             *)
(***************************************************************************)
FilePath(f) == PathJoin(f.root, f.file)
EligibleFiles == {k \in 1..Len(DocsFiles) : Eligible(DocsFiles[k].file)}

\* some step for the file raised during the run
StepRaised(log, path) == \E i \in 1..Len(log) : log[i].path = path /\ ~log[i].ok

\* the run got to the file
Reached(log, path) == \E i \in 1..Len(log) : log[i].op = "open" /\ log[i].path = path

\* the failure lines of a summary that name the path
FailureLinesFor(lines, path) ==
    {i \in 1..Len(lines) : lines[i][1] = "failed" /\ lines[i][2] = path}

\* the success lines of a summary that name the file
SuccessLinesFor(lines, file) ==
    {i \in 1..Len(lines) : lines[i][1] = "indexed" /\ lines[i][2] = file}

\* C1: whatever step raises for an eligible file, ingest_directory returns
\* the summary, the summary has exactly one failure line for that file, and
\* every later eligible file of the walk is processed
C1_FileFailureContained ==
    out.op = "ingest" =>
        /\ out.kind = "returned"
        /\ \A k \in EligibleFiles :
              StepRaised(out.log, FilePath(DocsFiles[k])) =>
                  /\ Cardinality(FailureLinesFor(out.value, FilePath(DocsFiles[k]))) = 1
                  /\ \A j \in EligibleFiles :
                        j > k => Reached(out.log, FilePath(DocsFiles[j]))

\* C2: get_rag_response_stream returns a pair and never raises
C2_QueryNeverRaises ==
    out.op = "rag" => out.kind = "returned"

\* C3: when retrieval returns an empty sequence, the result is a None stream
\* with the fixed message, and the generation service is not called
C3_NoGroundingShortCircuit ==
    (out.op = "rag" /\ out.searched /\ out.retrieved = <<>>) =>
        /\ out.kind = "returned"
        /\ out.stream = "None"
        /\ out.text = NO_DOCUMENTS_MESSAGE
        /\ out.chat_calls = 0

C3_Witness ==
    /\ out.op = "rag"
    /\ out.searched
    /\ out.retrieved = <<>>
    /\ out.kind = "returned"
    /\ exists

\* C4: search_vector_db returns a list in every state of the index, and the
\* empty list when the collection is absent or empty or the query raises
C4_SearchReturnsList ==
    out.op = "search" =>
        /\ out.kind = "returned"
        /\ out.value = [i \in 1..Len(out.value) |-> out.value[i]]
        /\ (~out.found \/ out.count = 0 \/ out.query_raised) => out.value = <<>>

C4_Witness ==
    /\ out.op = "search"
    /\ out.found
    /\ out.count > 0
    /\ out.query_raised
    /\ out.value = <<>>

\* C5: a clear of a collection of N > 0 items leaves the collection existing
\* and empty, and a search that follows returns the empty list
C5_ClearThenEmpty ==
    /\ (out.op = "clear" /\ out.status = "cleared" /\ out.count > 0) =>
           (exists /\ Cardinality(items) = 0)
    /\ (out.op = "search" /\ afterClear) =>
           (out.kind = "returned" /\ out.value = <<>>)

C5_Witness ==
    /\ out.op = "search"
    /\ afterClear
    /\ exists
    /\ items = {}
    /\ out.value = <<>>

\* the eligible files whose extracted text has no non-blank paragraph
BlankFiles ==
    {k \in EligibleFiles :
        /\ ~clean_html(DocsFiles[k].html).raised
        /\ Paragraphs(clean_html(DocsFiles[k].html).text) = <<>>}

\* no embedding call, no index write and no summary line for the file
NoTraceOf(f, log, lines) ==
    /\ \A i \in 1..Len(log) :
          log[i].path = FilePath(f) => log[i].op \notin {"embed", "add"}
    /\ FailureLinesFor(lines, FilePath(f)) = {}
    /\ SuccessLinesFor(lines, f.file) = {}

\* C9: a file without a non-blank paragraph yields no chunk, no embedding
\* call, no index write and no line of the summary
C9_BlankFileSkipped ==
    \A k \in BlankFiles :
        /\ chunk_text(clean_html(DocsFiles[k].html).text, CHUNK_SIZE_TOKENS) = <<>>
        /\ NoTraceOf(DocsFiles[k], calls, summary)
        /\ out.op = "ingest" =>
              NoTraceOf(DocsFiles[k], out.log,
                        IF out.kind = "returned" THEN out.value ELSE <<>>)

C9_Witness ==
    /\ out.op = "ingest"
    /\ out.kind = "returned"
    /\ BlankFiles # {}
    /\ \A k \in BlankFiles : Reached(out.log, FilePath(DocsFiles[k]))
    /\ out.value # <<>>

\* the source paths among the retrieved chunks
RetrievedPaths(retrieved) ==
    {retrieved[i].metadata.source_path : i \in 1..Len(retrieved)}

\* C10: the sources text has one bullet per distinct source path, showing its
\* basename, and the bullets are in alphabetical order
C10_SourcesDedupSorted ==
    (out.op = "rag" /\ out.kind = "returned" /\ out.stream # "None") =>
        LET bullets == Tail(out.text)
            paths == RetrievedPaths(out.retrieved)
        IN  /\ out.text[1] = <<"### Retrieved Sources:">>
            /\ \A i \in 1..Len(bullets) : bullets[i][1] = "- "
            /\ Len(bullets) = Cardinality(paths)
            /\ \A p \in paths :
                  Cardinality({i \in 1..Len(bullets) : bullets[i][2] = Basename(p)})
                      = Cardinality({q \in paths : Basename(q) = Basename(p)})
            /\ \A i, j \in 1..Len(bullets) :
                  i < j => ~StrLess(bullets[j][2], bullets[i][2])

C10_Witness ==
    /\ out.op = "rag"
    /\ out.kind = "returned"
    /\ out.stream # "None"
    /\ Len(out.retrieved) > Cardinality(RetrievedPaths(out.retrieved))
    /\ \E p, q \in RetrievedPaths(out.retrieved) : p # q /\ Basename(p) = Basename(q)
    /\ \E i, j \in 1..Len(out.retrieved) :
          /\ i < j
          /\ StrLess(Basename(out.retrieved[j].metadata.source_path),
                     Basename(out.retrieved[i].metadata.source_path))

\* the events of a run that concern the path, in their order
EventsOf(log, path) == SelectSeq(log, LAMBDA e : e.path = path)

\* the index write of a file is preceded by one successful embedding call per
\* chunk, in chunk order, and carries the vectors these calls returned, the
\* chunk texts and the file's title and path
WriteWellFormed(log, f) ==
    LET events == EventsOf(log, FilePath(f))
        cleaned == clean_html(f.html)
        n == Len(events) - 2
    IN  (\E i \in 1..Len(events) : events[i].op = "add" /\ events[i].ok) =>
            /\ n >= 1
            /\ events[1].op = "open"
            /\ \A i \in 1..n :
                  /\ events[1 + i].op = "embed"
                  /\ events[1 + i].ok
            /\ events[n + 2].op = "add"
            /\ events[n + 2].documents = chunk_text(cleaned.text, CHUNK_SIZE_TOKENS)
            /\ Len(events[n + 2].documents) = n
            /\ Len(events[n + 2].embeddings) = n
            /\ Len(events[n + 2].metadatas) = n
            /\ \A i \in 1..n :
                  /\ events[1 + i].prompt = events[n + 2].documents[i]
                  /\ events[n + 2].embeddings[i] = Embedding(events[n + 2].documents[i])
                  /\ events[n + 2].metadatas[i] =
                        [title |-> cleaned.title, source_path |-> FilePath(f)]

\* C11: a file of n >= 1 chunks that is ingested successfully has n embedding
\* calls, one per chunk in chunk order and before the index write, then one
\* index write of n items: the i-th vector is the embedding of the i-th chunk,
\* the metadata is the file's title and path
C11_OneWritePerFile ==
    \A k \in EligibleFiles :
        /\ WriteWellFormed(calls, DocsFiles[k])
        /\ out.op = "ingest" => WriteWellFormed(out.log, DocsFiles[k])

C11_Witness ==
    /\ out.op = "ingest"
    /\ out.kind = "returned"
    /\ \E i \in 1..Len(out.log) :
          /\ out.log[i].op = "add"
          /\ out.log[i].ok
          /\ out.log[i].n >= 2
          /\ out.log[i].documents[1] # out.log[i].documents[2]

\* C12: a clear while the collection does not exist leaves the index as it
\* is, without creating the collection, and reports that there was nothing
\* to clear
C12_ClearAbsentIsNoOp ==
    [][(out'.op = "clear" /\ out.op = "none" /\ ~exists) =>
          /\ exists' = FALSE
          /\ items' = items
          /\ out'.status = "nothing to clear"]_vars

C12_Witness ==
    /\ out.op = "clear"
    /\ ~out.found
    /\ out.status = "nothing to clear"
    /\ ~exists
    /\ runs > 0

\* C13: search_vector_db and get_rag_response_stream leave the existence of
\* the collection and its items unchanged
C13_RetrievalReadsOnly ==
    [][(out'.op \in {"search", "rag"} /\ out.op = "none") =>
          (exists' = exists /\ items' = items)]_vars

C13_Witness ==
    /\ out.op = "search"
    /\ ~out.found
    /\ ~exists

\* C14: ingestion never removes or replaces an item; a successfully ingested
\* file adds as many items as it has chunks, under ids that no item had;
\* only a clear lowers the item count
C14_IngestOnlyAppends ==
    [][/\ (ipc = "walking" \/ ipc' = "walking") => items \subseteq items'
       /\ (/\ ipc = "walking"
           /\ ipc' = "walking"
           /\ fileIdx <= Len(DocsFiles)
           /\ summary' = Append(summary, SuccessLine(DocsFiles[fileIdx].file,
                                                     ChunkCount(DocsFiles[fileIdx]))))
              => /\ Cardinality(items') = Cardinality(items) + ChunkCount(DocsFiles[fileIdx])
                 /\ \A new \in items' \ items : \A old \in items : new.id # old.id
       /\ \A a, b \in items' : a.id = b.id => a = b
       /\ Cardinality(items') < Cardinality(items) => out'.op = "clear"]_vars

C14_Witness ==
    /\ out.op = "ingest"
    /\ out.kind = "returned"
    /\ items # {}
    /\ \A a \in items : \E b \in items : a.id # b.id /\ Hit(a) = Hit(b)
    /\ \A k \in EligibleFiles :
          ChunkCount(DocsFiles[k]) > 0 =>
              \E a \in items : a.metadata.source_path = FilePath(DocsFiles[k])

\* C16: when an embedding call for a chunk of a file raises, no item of that
\* file is written, the items in the index stay, and the file gets a failure
\* line
C16_EmbedFailureWritesNothing ==
    [][(/\ ipc = "walking"
        /\ ipc' = "walking"
        /\ Len(calls') > Len(calls)
        /\ calls'[Len(calls')].op = "embed"
        /\ ~calls'[Len(calls')].ok)
          => /\ items' = items
             /\ summary' = Append(summary,
                              FailureLine(calls'[Len(calls')].path, "EmbedError"))]_vars

C16_Witness ==
    /\ ipc = "walking"
    /\ Len(calls) >= 2
    /\ calls[Len(calls)].op = "embed"
    /\ ~calls[Len(calls)].ok
    /\ calls[Len(calls) - 1].op = "embed"
    /\ calls[Len(calls) - 1].ok
    /\ calls[Len(calls) - 1].path = calls[Len(calls)].path
    /\ items # {}
    /\ \A it \in items : it.metadata.source_path # calls[Len(calls)].path \/ runs > 1

\* the contents of the pieces that carry message content, in arrival order
Deltas(ps) ==
    LET withContent == SelectSeq(ps, HasContent)
    IN  [k \in 1..Len(withContent) |-> withContent[k].content]

RECURSIVE Concat(_, _)
Concat(ds, k) == IF k = 0 THEN <<>> ELSE Concat(ds, k - 1) \o ds[k]

\* what the handler has shown so far, by the case the pipeline call ended in
Forwarded ==
    /\ stream = "unset" => /\ Len(updates) <= 1
                           /\ received = <<>>
    /\ updates # <<>> => updates[1] = Update(NoneAnswer, THINKING)
    /\ stream = "None" =>
          /\ Len(updates) = 2
          /\ updates[2] = Update(Answer(sources), sources)
          /\ received = <<>>
          /\ hpc \in {"message", "done", "closed"}
    /\ stream \in {"open", "ended"} =>
          /\ Len(updates) = 1 + Len(Deltas(received))
          /\ \A k \in 1..Len(Deltas(received)) :
                updates[1 + k] = Update(Answer(Concat(Deltas(received), k)), sources)
    /\ hpc = "done" => stream \in {"None", "ended"}
    /\ stream = "ended" => hpc = "done"

\* C15: the handler shows "Thinking..." before it calls the pipeline; without
\* a stream it yields the message once more, as answer and as source display,
\* and ends; with a stream it yields once per piece that carries message
\* content, the answer being the concatenation of the contents so far and the
\* display being the sources, and ends when the stream ends; once the caller
\* has stopped iterating nothing more is taken from the stream
C15_StreamForwarded ==
    [][/\ ragCalls' > ragCalls =>
             (updates = <<Update(NoneAnswer, THINKING)>> /\ ragCalls = 0)
       /\ Forwarded'
       /\ hpc = "closed" => (received' = received /\ updates' = updates /\ ragCalls' = ragCalls)
       /\ received' # received => hpc = "loop"]_vars

C15_Witness ==
    /\ hpc = "done"
    /\ stream = "ended"
    /\ \E i \in 1..Len(received) : ~HasContent(received[i])
    /\ Len(updates) = 3
    /\ updates[2].history_last = Answer(<<"x">>)
    /\ updates[3].history_last = Answer(<<"x", "y">>)
    /\ updates[3].sources_display = sources
    /\ Len(sources) > 1
====
